---------------------------- MODULE Spec2Model ----------------------------
(***************************************************************************)
(* A model of the configuration resolution and package composition of the  *)
(* prod tool: ConfigManager (src/src/config_manager.py), PathProcessor     *)
(* (src/src/path_processor.py) and ProductionEnvironment                   *)
(* (src/src/production_environment.py).                                    *)
(*                                                                         *)
(* Nine specifications share the module's variables:                       *)
(*   Spec       a ConfigManager on which load_config, merge_configs,       *)
(*              set_override and clear_overrides are called in any order;  *)
(*   MergeSpec  ProductionEnvironment._merge_packages applied to two       *)
(*              package lists;                                             *)
(*   ExecSpec   a constructed ProductionEnvironment on which               *)
(*              execute_software and activate are called;                  *)
(*   PathSpec   PathProcessor.split_paths and                              *)
(*              ProductionEnvironment._expand_paths applied to one string; *)
(*   ParseSpec  the package getters of SoftwareConfig and PipelineConfig   *)
(*              on stores that hold any raw packages value;                *)
(*   ConstructSpec  the construction of a ProductionEnvironment over any   *)
(*              settings file;                                             *)
(*   LookupSpec the lookups on a ConfigManager that was loaded and         *)
(*              overridden before;                                         *)
(*   EnvSpec    one EnvironmentManager (src/src/environment_manager.py)    *)
(*              and the environment of its process;                        *)
(*   TwoSpec    two ProductionEnvironment instances used in one process.   *)
(* Each specification keeps the variables of the others at their idle      *)
(* values.                                                                 *)
(*                                                                         *)
(* Configuration files are well-formed ini files without a [DEFAULT]       *)
(* section and without '%' interpolation: a file is a mapping from section *)
(* names to mappings from keys to raw string values.                       *)
(***************************************************************************)
EXTENDS Integers, Sequences, FiniteSets, TLC

(***************************************************************************)
(* Bounds of the model.                                                    *)
(***************************************************************************)
\* files read into one ConfigManager
MaxLoads == 3
\* set_override calls since the last clear_overrides
MaxOverrides == 2
\* length of the list handed to merge_configs
MaxMergeLen == 2
\* length of the base list handed to _merge_packages
MaxBase == 3
\* length of the override list handed to _merge_packages
MaxExtra == 2
\* paths listed in SOFTWARE_CONFIG and in PIPELINE_CONFIG
MaxConfigPaths == 2
\* files read into the ConfigManager on which lookups are made
MaxLookupLoads == 2
\* set_override calls made on it before the lookups
MaxLookupOverrides == 1
\* calls made on one EnvironmentManager
MaxEnvCalls == 2
\* calls made on two ProductionEnvironment instances of one process
MaxTwoCalls == 2
\* paths joined into the string handed to split_paths and _expand_paths
MaxParts == 2
\* length of a string of free characters handed to them
MaxChars == 3

VARIABLES
    cm,             \* the ConfigManager: [config_parser, override_config]
    loaded,         \* history: the sources read into cm.config_parser, in order
    overrides_log,  \* history: the set_override calls since the last clear
    last_call       \* the last ConfigManager method called and how it ended

config_vars == <<cm, loaded, overrides_log, last_call>>

VARIABLES
    arg_base,      \* the first argument of _merge_packages
    arg_overrides,  \* its second argument
    merged              \* what the call produced, once made

merge_vars == <<arg_base, arg_overrides, merged>>

VARIABLES
    prod_env,       \* the ProductionEnvironment: its name, config_paths, both
                    \* stores and the EnvironmentManager
    exec_call,      \* the arguments of the last execute_software call
    exec_outcome,   \* how that call ended
    rez_calls,      \* the execute_with_rez calls that call made
    activation      \* the last activate call: the script written, how it ended

exec_vars == <<prod_env, exec_call, exec_outcome, rez_calls, activation>>

VARIABLES
    path_self,      \* the ProductionEnvironment that expands: [prod_name]
    os_pathsep,     \* os.pathsep of the host
    joined,         \* history: the paths and the separator arg_path joins
    arg_path,       \* the string handed to split_paths and to _expand_paths
    split_result,   \* what PathProcessor(path_string).split_paths() returned
    expand_result   \* what _expand_paths(path_string) returned

path_vars == <<path_self, os_pathsep, joined, arg_path, split_result, expand_result>>

VARIABLES
    parse_env,      \* a software store and a pipeline store
    parse_raw,      \* history: the raw packages values the stores were given
    parse_result    \* the last package getter called and what it produced

parse_vars == <<parse_env, parse_raw, parse_result>>

VARIABLES
    settings_file,  \* config/prod-settings.ini: None, or its content
    construct_arg,  \* the production name and the os.pathsep of the host
    construction    \* what ProductionEnvironment(prod_name) produced

construct_vars == <<settings_file, construct_arg, construction>>

VARIABLES
    lookup,         \* the last lookup made on cm: its arguments and result
    failed_for      \* history: the software of the last get_software_version
                    \* call that raised, "" when none did

lookup_vars == <<lookup, failed_for>>

VARIABLES
    os_environ,     \* os.environ, the environment of the process
    manager,        \* the EnvironmentManager: [original_env, current_env,
                    \* env_variables]
    env_call,       \* the last call made on it, and how many were made
    initial_environ \* history: os.environ when the manager was constructed

environ_vars == <<os_environ, manager, env_call, initial_environ>>

VARIABLES
    instances,      \* two ProductionEnvironment instances of one process
    two_call        \* the last call made on one of them, and how many were made

two_vars == <<instances, two_call>>

vars == <<config_vars, merge_vars, exec_vars, path_vars, parse_vars, construct_vars, lookup_vars, environ_vars, two_vars>>

(***************************************************************************)
(* Generic helpers.                                                        *)
(***************************************************************************)
SeqsUpTo(S, n) == UNION {[1..m -> S] : m \in 0..n}

EmptyMap == [x \in {} |-> ""]

Max(S) == CHOOSE x \in S : \A y \in S : y <= x
Min(S) == CHOOSE x \in S : \A y \in S : x <= y

(***************************************************************************)
(* The files on disk.  A path that is not in the domain does not exist.    *)
(***************************************************************************)
FileSystem ==
    [p \in {"studio/software.ini", "prod/software.ini", "shot/software.ini",
            "dev/software.ini", "studio/pipeline.ini", "prod/pipeline.ini"} |->
        CASE p = "studio/software.ini" ->
                [s \in {"maya", "nuke"} |->
                    IF s = "maya"
                    THEN [k \in {"version", "packages"} |->
                            IF k = "version" THEN "2023.3.0" ELSE "['mtoa-2.2']"]
                    ELSE [k \in {"version"} |-> "14.0"]]
          [] p = "prod/software.ini" ->
                \* defines [maya] without the packages key
                [s \in {"maya"} |-> [k \in {"version"} |-> "2023.3.2"]]
          [] p = "shot/software.ini" ->
                \* [houdini] is a section without any key
                [s \in {"maya", "houdini"} |->
                    IF s = "maya"
                    THEN [k \in {"packages"} |-> "['mtoa-2.3', 'golaem-4']"]
                    ELSE EmptyMap]
          [] p = "dev/software.ini" ->
                \* [common] is no software, whatever keys it holds
                [s \in {"maya", "nuke", "common"} |->
                    IF s = "maya" THEN [k \in {"version"} |-> "2024.0"]
                    ELSE IF s = "nuke" THEN [k \in {"packages"} |-> "[]"]
                    ELSE [k \in {"version"} |-> "1.0"]]
          [] p = "studio/pipeline.ini" ->
                [s \in {"common", "environment"} |->
                    IF s = "common"
                    THEN [k \in {"packages"} |-> "['vfxCore-2.5']"]
                    ELSE [k \in {"STUDIO"} |-> "acme"]]
          [] OTHER ->
                [s \in {"maya", "environment"} |->
                    IF s = "maya"
                    THEN [k \in {"packages"} |-> "['golaem-4']"]
                    ELSE [k \in {"PROD"} |-> "dlt"]]]

path_exists(p) == p \in DOMAIN FileSystem

\* the paths handed to the ConfigManager of Spec; "absent.ini" does not exist
ConfigPaths == {"studio/software.ini", "prod/software.ini", "shot/software.ini",
                "dev/software.ini", "absent.ini"}

(***************************************************************************)
(* configparser.ConfigParser, as the ConfigManager uses it: a mapping from *)
(* section names to mappings from keys to values, case preserved.          *)
(***************************************************************************)
NewParser == [s \in {} |-> EmptyMap]

parser_has_section(parser, section) == section \in DOMAIN parser

parser_has_option(parser, section, key) ==
    /\ section \in DOMAIN parser
    /\ key \in DOMAIN parser[section]

parser_add_section(parser, section) ==
    [s \in DOMAIN parser \cup {section} |->
        IF s \in DOMAIN parser THEN parser[s] ELSE EmptyMap]

parser_set(parser, section, key, value) ==
    [s \in DOMAIN parser |->
        IF s = section
        THEN [k \in DOMAIN parser[s] \cup {key} |->
                IF k = key THEN value ELSE parser[s][k]]
        ELSE parser[s]]

\* ConfigParser.read of one file into a parser that may hold earlier files:
\* sections are added when new, and each key of the file is set in its section
parser_read(parser, source) ==
    [s \in DOMAIN parser \cup DOMAIN source |->
        IF s \notin DOMAIN source THEN parser[s]
        ELSE IF s \notin DOMAIN parser THEN source[s]
        ELSE [k \in DOMAIN parser[s] \cup DOMAIN source[s] |->
                IF k \in DOMAIN source[s] THEN source[s][k] ELSE parser[s][k]]]

(***************************************************************************)
(* ConfigManager.                                                          *)
(***************************************************************************)
\* what a method call produced: a returned value or a raised exception
Return(v) == [kind |-> "return", value |-> v, error |-> <<>>]
RaiseConfigError(message) == [kind |-> "ConfigError", value |-> "", error |-> message]

\* an optional argument: None, or a supplied value
None == <<>>
Some(v) == <<v>>

ConfigManager_init == [config_parser |-> NewParser, override_config |-> NewParser]

\* load_config raises ConfigError for a path that does not exist
load_config_raises(config_path) == ~path_exists(config_path)

load_config_resetting(self, config_path) ==
    [self EXCEPT !.config_parser = parser_read(NewParser, FileSystem[config_path])]

\* load_config on an existing path
load_config(self, config_path) ==
    [self EXCEPT !.config_parser = parser_read(@, FileSystem[config_path])]

RECURSIVE merge_configs(_, _)
merge_configs(self, configs) ==
    IF configs = <<>> THEN self
    ELSE LET config == Head(configs)
             next == IF path_exists(config)
                     THEN [self EXCEPT !.config_parser =
                                parser_read(@, FileSystem[config])]
                     ELSE self     \* logged, skipped
         IN  merge_configs(next, Tail(configs))

set_override(self, section, key, value) ==
    LET with_section ==
            IF ~parser_has_section(self.override_config, section)
            THEN parser_add_section(self.override_config, section)
            ELSE self.override_config
    IN  [self EXCEPT !.override_config = parser_set(with_section, section, key, value)]

get_merged_config_base_first(self, section, key, default) ==
    IF parser_has_option(self.config_parser, section, key)
    THEN Return(self.config_parser[section][key])
    ELSE IF parser_has_option(self.override_config, section, key)
    THEN Return(self.override_config[section][key])
    ELSE IF default # None THEN Return(default[1])
    ELSE RaiseConfigError(<<"Configuration key not found: ", section, ".", key>>)

get_merged_config_falsy_default(self, section, key, default) ==
    IF parser_has_option(self.override_config, section, key)
    THEN Return(self.override_config[section][key])
    ELSE IF parser_has_option(self.config_parser, section, key)
    THEN Return(self.config_parser[section][key])
    ELSE IF default # None /\ default[1] # "" THEN Return(default[1])
    ELSE RaiseConfigError(<<"Configuration key not found: ", section, ".", key>>)

get_merged_config(self, section, key, default) ==
    IF parser_has_option(self.override_config, section, key)
    THEN Return(self.override_config[section][key])
    ELSE IF parser_has_option(self.config_parser, section, key)
    THEN Return(self.config_parser[section][key])
    ELSE IF default # None THEN Return(default[1])
    ELSE RaiseConfigError(<<"Configuration key not found: ", section, ".", key>>)

\* dict.update: the entries of other replace or extend those of result
dict_update(result, other) ==
    [k \in DOMAIN result \cup DOMAIN other |->
        IF k \in DOMAIN other THEN other[k] ELSE result[k]]

get_section_base_wins(self, section) ==
    LET from_override == IF parser_has_section(self.override_config, section)
                         THEN dict_update(EmptyMap, self.override_config[section])
                         ELSE EmptyMap
    IN  IF parser_has_section(self.config_parser, section)
        THEN dict_update(from_override, self.config_parser[section])
        ELSE from_override

get_section(self, section) ==
    LET from_base == IF parser_has_section(self.config_parser, section)
                     THEN dict_update(EmptyMap, self.config_parser[section])
                     ELSE EmptyMap
    IN  IF parser_has_section(self.override_config, section)
        THEN dict_update(from_base, self.override_config[section])
        ELSE from_base

has_section(self, section) ==
    \/ parser_has_section(self.config_parser, section)
    \/ parser_has_section(self.override_config, section)

sorted_descending(sections) ==
    LET descending == <<"unknownSoftware", "render", "nuke", "maya", "houdini",
                        "environment", "common">>
        listed(name) == name \in sections
    IN  SelectSeq(descending, listed)

\* sorted() on section names: the names of the model in ascending order of
\* their code points, of which the ones in sections are kept
sorted(sections) ==
    LET ascending == <<"common", "environment", "houdini", "maya", "nuke",
                       "render", "unknownSoftware">>
        listed(name) == name \in sections
    IN  SelectSeq(ascending, listed)

get_sections(self) ==
    sorted(DOMAIN self.config_parser \cup DOMAIN self.override_config)

clear_overrides_keeping(self) == self

clear_overrides(self) == [self EXCEPT !.override_config = NewParser]


(***************************************************************************)
(* Package identifiers are strings read character by character:            *)
(* sequences of one-character strings.                                     *)
(***************************************************************************)
\* str.startswith
startswith(s, prefix) ==
    /\ Len(prefix) <= Len(s)
    /\ \A i \in 1..Len(prefix) : s[i] = prefix[i]

\* pkg.split("-")[0]: the characters before the first hyphen, or the whole
\* string when it holds no hyphen
RECURSIVE split_first(_)
split_first(pkg) ==
    IF pkg = <<>> \/ Head(pkg) = "-" THEN <<>>
    ELSE <<Head(pkg)>> \o split_first(Tail(pkg))

\* what a call that yields a list produced
ListReturn(v) == [kind |-> "return", value |-> v, error |-> <<>>]
ListRaise(exception, message) == [kind |-> exception, value |-> <<>>, error |-> message]

\* ProductionEnvironment._merge_packages: override_packages_names[0] is an
\* IndexError on an empty override list
_merge_packages(base_packages, override_packages) ==
    LET override_packages_names ==
            [i \in 1..Len(override_packages) |-> split_first(override_packages[i])]
    IN  IF override_packages_names = <<>>
        THEN ListRaise("IndexError", <<"tuple index out of range">>)
        ELSE LET keep(p) == ~startswith(p, override_packages_names[1])
                 base_packages_without_overrides == SelectSeq(base_packages, keep)
             IN  ListReturn(base_packages_without_overrides \o override_packages)

(***************************************************************************)
(* The package lists that the packages values of the files encode.         *)
(***************************************************************************)
mtoa_2_2 == <<"m", "t", "o", "a", "-", "2", ".", "2">>
mtoa_2_3 == <<"m", "t", "o", "a", "-", "2", ".", "3">>
golaem_4 == <<"g", "o", "l", "a", "e", "m", "-", "4">>
golaem_5 == <<"g", "o", "l", "a", "e", "m", "-", "5">>
vfxCore_2_5 == <<"v", "f", "x", "C", "o", "r", "e", "-", "2", ".", "5">>

\* a Python value of the types that occur here: value holds the items of a
\* list or tuple, the string itself for a str, the digits for an int and
\* nothing for None
PyReturn(type, v) == [kind |-> "return", type |-> type, value |-> v, error |-> <<>>]
PyRaise(exception, message) ==
    [kind |-> exception, type |-> "none", value |-> <<>>, error |-> message]

\* ast.literal_eval on the packages values of the model: the values that
\* occur in FileSystem, the default "[]", and the values of RawPackages
literal_eval(packages_str) ==
    CASE packages_str = "[]" -> PyReturn("list", <<>>)
      [] packages_str = "['mtoa-2.2']" -> PyReturn("list", <<mtoa_2_2>>)
      [] packages_str = "['mtoa-2.3', 'golaem-4']" ->
            PyReturn("list", <<mtoa_2_3, golaem_4>>)
      [] packages_str = "['vfxCore-2.5']" -> PyReturn("list", <<vfxCore_2_5>>)
      [] packages_str = "['golaem-4']" -> PyReturn("list", <<golaem_4>>)
      [] packages_str = "" -> PyRaise("SyntaxError", <<"invalid syntax">>)
      [] packages_str = "['mtoa-2.2'" -> PyRaise("SyntaxError", <<"'[' was never closed">>)
      [] packages_str = "mtoa-2.2" -> PyRaise("ValueError", <<"malformed node or string">>)
      [] packages_str = "[mtoa-2.2]" -> PyRaise("ValueError", <<"malformed node or string">>)
      [] packages_str = "42" -> PyReturn("int", <<<<"4", "2">>>>)
      [] packages_str = "None" -> PyReturn("NoneType", <<>>)
      [] packages_str = "'mtoa-2.2'" -> PyReturn("str", <<mtoa_2_2>>)
      [] packages_str = "('mtoa-2.2',)" -> PyReturn("tuple", <<mtoa_2_2>>)
      [] packages_str = "{[]: 1}" -> PyRaise("TypeError", <<"unhashable type: 'list'">>)

(***************************************************************************)
(* SoftwareConfig and PipelineConfig, each over its own ConfigManager.     *)
(***************************************************************************)
_validate_software_exists_raises(config_manager, software_name) ==
    ~has_section(config_manager, software_name)

get_software_version(config_manager, software_name) ==
    IF _validate_software_exists_raises(config_manager, software_name)
    THEN RaiseConfigError(<<"Software '", software_name, "' is not configured">>)
    ELSE LET found == get_merged_config(config_manager, software_name, "version", None)
         IN  IF found.kind = "ConfigError"
             THEN RaiseConfigError(
                    <<"Version for software '", software_name, "' is not configured">>)
             ELSE found

\* try: return cast(List[str], ast.literal_eval(packages_str)) with its
\* except (SyntaxError, ValueError): return [].  cast converts nothing, and
\* another exception passes through.
parse_packages(packages_str) ==
    LET parsed == literal_eval(packages_str)
    IN  IF parsed.kind \in {"SyntaxError", "ValueError"}
        THEN PyReturn("list", <<>>) ELSE parsed

get_required_packages(config_manager, software_name) ==
    IF _validate_software_exists_raises(config_manager, software_name)
    THEN PyRaise("ConfigError", <<"Software '", software_name, "' is not configured">>)
    ELSE parse_packages(
            get_merged_config(config_manager, software_name, "packages", Some("[]")).value)

get_common_packages(config_manager) ==
    parse_packages(get_merged_config(config_manager, "common", "packages", Some("[]")).value)

get_software_packages(config_manager, software_name) ==
    IF has_section(config_manager, software_name)
    THEN parse_packages(
            get_merged_config(config_manager, software_name, "packages", Some("[]")).value)
    ELSE PyReturn("list", <<>>)

get_configured_software_all(config_manager) == get_sections(config_manager)

\* SoftwareConfig.get_configured_software: the sections in the order of
\* get_sections, without the two excluded ones
get_configured_software(config_manager) ==
    LET excluded_sections == {"common", "environment"}
        is_software(section) == section \notin excluded_sections
    IN  SelectSeq(get_sections(config_manager), is_software)

\* PipelineConfig.get_environment_variables: get_section raises nothing, so
\* the except branch that returns {} is never taken
get_environment_variables(config_manager) == get_section(config_manager, "environment")

(***************************************************************************)
(* ProductionEnvironment.                                                  *)
(***************************************************************************)
\* a loader that gives up at the first path that does not exist
RECURSIVE _parse_config_stopping(_, _)
_parse_config_stopping(config_manager, paths) ==
    IF paths = <<>> \/ ~path_exists(Head(paths)) THEN config_manager
    ELSE _parse_config_stopping(load_config(config_manager, Head(paths)), Tail(paths))

\* _parse_software_config and _parse_pipeline_config: a fresh ConfigManager
\* into which every existing path of the list is loaded, in order
RECURSIVE _parse_config(_, _)
_parse_config(config_manager, paths) ==
    IF paths = <<>> THEN config_manager
    ELSE _parse_config(
            IF path_exists(Head(paths))
            THEN load_config(config_manager, Head(paths))
            ELSE config_manager,    \* logged, skipped
            Tail(paths))

\* EnvironmentManager.__init__: the variables stored for script generation
EnvironmentManager_init == [env_variables |-> EmptyMap]

\* ProductionEnvironment.__init__ once _load_config_paths has returned
\* config_paths
ProductionEnvironment_init(prod_name, config_paths) ==
    [prod_name |-> prod_name,
     config_paths |-> config_paths,
     software_config |-> _parse_config(ConfigManager_init, config_paths.software),
     pipeline_config |-> _parse_config(ConfigManager_init, config_paths.pipeline),
     env_manager |-> EnvironmentManager_init]

\* list.extend: the items of an iterable are appended, a str gives its
\* characters, and a value that is not iterable is a TypeError; an exception
\* raised while the argument was computed comes first
list_extend(packages, other) ==
    IF packages.kind # "return" THEN packages
    ELSE IF other.kind # "return" THEN other
    ELSE IF other.type \in {"list", "tuple"}
    THEN PyReturn("list", packages.value \o other.value)
    ELSE IF other.type = "str"
    THEN PyReturn("list", packages.value
                            \o [i \in 1..Len(other.value[1]) |-> <<other.value[1][i]>>])
    ELSE PyRaise("TypeError", <<"'", other.type, "' object is not iterable">>)

get_base_packages_required_first(self, software_name) ==
    list_extend(list_extend(list_extend(PyReturn("list", <<>>),
        get_required_packages(self.software_config, software_name)),
        get_common_packages(self.pipeline_config)),
        get_software_packages(self.pipeline_config, software_name))

get_base_packages(self, software_name) ==
    list_extend(list_extend(list_extend(PyReturn("list", <<>>),
        get_common_packages(self.pipeline_config)),
        get_software_packages(self.pipeline_config, software_name)),
        get_required_packages(self.software_config, software_name))

\* a listing that ends at the first software whose version does not resolve
get_software_list_stopping(self) ==
    LET software == get_configured_software(self.software_config)
        failing == {i \in 1..Len(software) :
                        get_software_version(self.software_config, software[i]).kind
                            # "return"}
        listed == IF failing = {} THEN software
                  ELSE SubSeq(software, 1, Min(failing) - 1)
    IN  [i \in 1..Len(listed) |->
            [name |-> listed[i],
             version |-> get_software_version(self.software_config, listed[i]).value]]

\* get_software_list: one entry for each configured software whose version
\* resolves; a ConfigError of get_software_version skips the software
get_software_list(self) ==
    LET resolves(software) ==
            get_software_version(self.software_config, software).kind = "return"
        listed == SelectSeq(get_configured_software(self.software_config), resolves)
    IN  [i \in 1..Len(listed) |->
            [name |-> listed[i],
             version |-> get_software_version(self.software_config, listed[i]).value]]

\* EnvironmentManager.set_environment_variables: the variables are stored
\* for script generation (and exported to the process, key by key)
set_environment_variables(env_manager, variables) ==
    [env_manager EXCEPT !.env_variables = dict_update(@, variables)]

\* activate: [self, script, outcome].  The script exports each stored
\* variable and defines an alias for each "name:version" item; the call
\* of source_interactive_shell passes one positional argument more than the
\* method takes, a TypeError raised once the script has been written.
activate(self) ==
    LET env_variables == get_environment_variables(self.pipeline_config)
        env_manager == set_environment_variables(self.env_manager, env_variables)
        software == get_software_list(self)
        software_list == [i \in 1..Len(software) |->
                            <<software[i].name, ":", software[i].version>>]
    IN  [self |-> [self EXCEPT !.env_manager = env_manager],
         script |-> [prod_name |-> self.prod_name,
                     exports |-> env_manager.env_variables,
                     software_list |-> software_list],
         outcome |-> [kind |-> "TypeError",
                      error |-> <<"source_interactive_shell() takes 2 positional ",
                                  "arguments but 3 were given">>]]

execute_software_swallowing(self, software_name, additional_packages, env_only, background) ==
    LET additional == IF additional_packages = None THEN <<>> ELSE additional_packages[1]
        version == get_software_version(self.software_config, software_name)
        base_pkgs == get_base_packages(self, software_name)
        packages == _merge_packages(base_pkgs.value, additional)
    IN  IF version.kind # "return" \/ base_pkgs.kind # "return"
                \/ packages.kind # "return"
        THEN [outcome |-> [kind |-> "return", error |-> <<>>], rez_calls |-> <<>>]
        ELSE [outcome |-> [kind |-> "return", error |-> <<>>],
              rez_calls |-> <<[software_name |-> software_name,
                               software_version |-> version.value,
                               packages |-> packages.value,
                               command |-> software_name,
                               env_only |-> env_only,
                               background |-> background]>>]

\* execute_software: [outcome, rez_calls], the way the call ended and the
\* calls of RezManager.execute_with_rez it made.  An exception that is not a
\* ConfigError passes through the except clause untouched.
execute_software(self, software_name, additional_packages, env_only, background) ==
    LET additional == IF additional_packages = None THEN <<>> ELSE additional_packages[1]
        version == get_software_version(self.software_config, software_name)
        base_pkgs == get_base_packages(self, software_name)
        packages == _merge_packages(base_pkgs.value, additional)
    IN  IF version.kind # "return"
        THEN [outcome |-> [kind |-> version.kind, error |-> version.error],
              rez_calls |-> <<>>]
        ELSE IF base_pkgs.kind # "return"
        THEN [outcome |-> [kind |-> base_pkgs.kind, error |-> base_pkgs.error],
              rez_calls |-> <<>>]
        ELSE IF packages.kind # "return"
        THEN [outcome |-> [kind |-> packages.kind, error |-> packages.error],
              rez_calls |-> <<>>]
        ELSE [outcome |-> [kind |-> "return", error |-> <<>>],
              rez_calls |-> <<[software_name |-> software_name,
                               software_version |-> version.value,
                               packages |-> packages.value,
                               command |-> software_name,
                               env_only |-> env_only,
                               background |-> background]>>]

(***************************************************************************)
(* PathProcessor.split_paths and ProductionEnvironment._expand_paths.      *)
(* A string is the sequence of its characters.  The placeholder            *)
(* "{PROD_NAME}" is kept as one element: none of its characters is a ':',  *)
(* and it neither starts nor ends with a letter that split_paths could     *)
(* read as a drive letter.                                                 *)
(***************************************************************************)
\* str.isalpha on one character, over the characters of the model
isalpha(c) == c \in {"C", "D", "a", "b", "u"}

RECURSIVE mark_drive_letters_at_start(_, _)
mark_drive_letters_at_start(temp_path, i) ==
    IF ~(i <= Len(temp_path) - 2) THEN temp_path
    ELSE LET is_drive_letter ==
                /\ (i = 1 \/ temp_path[i - 1] = ":")
                /\ isalpha(temp_path[i])
                /\ temp_path[i + 1] = ":"
                /\ (temp_path[i + 2] = "\\" \/ temp_path[i + 2] = "/")
         IN  mark_drive_letters_at_start(
                IF is_drive_letter THEN [temp_path EXCEPT ![i + 1] = "@"]
                ELSE temp_path,
                i + 1)

\* the while loop of split_paths from index i on (counted from 1): the colon
\* of each letter, ':', slash triple becomes '@'
RECURSIVE mark_drive_letters(_, _)
mark_drive_letters(temp_path, i) ==
    IF ~(i <= Len(temp_path) - 2) THEN temp_path
    ELSE LET is_drive_letter ==
                /\ isalpha(temp_path[i])
                /\ temp_path[i + 1] = ":"
                /\ (temp_path[i + 2] = "\\" \/ temp_path[i + 2] = "/")
         IN  mark_drive_letters(
                IF is_drive_letter THEN [temp_path EXCEPT ![i + 1] = "@"]
                ELSE temp_path,
                i + 1)

\* str.split(sep) for a separator of one character
RECURSIVE str_split(_, _)
str_split(str, sep) ==
    LET at == {i \in 1..Len(str) : str[i] = sep}
    IN  IF at = {} THEN <<str>>
        ELSE <<SubSeq(str, 1, Min(at) - 1)>>
                \o str_split(SubSeq(str, Min(at) + 1, Len(str)), sep)

\* str.replace(old, new) for single characters
str_replace(str, old, new) ==
    [i \in 1..Len(str) |-> IF str[i] = old THEN new ELSE str[i]]

str_contains(str, c) == \E i \in 1..Len(str) : str[i] = c

split_paths_keeping_empty(path_string) ==
    LET parts == str_split(mark_drive_letters(path_string, 1), ":")
    IN  [i \in 1..Len(parts) |-> str_replace(parts[i], "@", ":")]

\* PathProcessor(path_string).split_paths()
split_paths(path_string) ==
    LET temp_path == mark_drive_letters(path_string, 1)
        parts == str_split(temp_path, ":")
        appended(part) == str_contains(part, "@") \/ part # <<>>
        kept == SelectSeq(parts, appended)
        result == [i \in 1..Len(kept) |->
                    IF str_contains(kept[i], "@")
                    THEN str_replace(kept[i], "@", ":")
                    ELSE kept[i]]
    IN  IF result = <<>> /\ path_string # <<>> THEN <<path_string>> ELSE result

\* the characters of a production name
chars(prod_name) ==
    CASE prod_name = "dlt" -> <<"d", "l", "t">>
      [] prod_name = "test_prod" -> <<"t", "e", "s", "t", "_", "p", "r", "o", "d">>
      [] prod_name = "a:1" -> <<"a", ":", "1">>
      [] OTHER -> <<>>

\* p.format(PROD_NAME=prod_name) on a string whose only braces are those of
\* "{PROD_NAME}" placeholders
RECURSIVE format(_, _)
format(p, prod_name) ==
    IF p = <<>> THEN <<>>
    ELSE (IF Head(p) = "{PROD_NAME}" THEN chars(prod_name) ELSE <<Head(p)>>)
            \o format(Tail(p), prod_name)

\* an expansion that leaves the placeholders of each piece as they are
_expand_paths_unformatted(self, pathsep, paths) == str_split(paths, pathsep)

\* ProductionEnvironment._expand_paths under the os.pathsep of the host.
\* os.path.expandvars leaves a string without '$' as it is, and no string
\* of the model holds one.
_expand_paths(self, pathsep, paths) ==
    LET parts == str_split(paths, pathsep)
    IN  [i \in 1..Len(parts) |-> format(parts[i], self.prod_name)]

(***************************************************************************)
(* Construction from the settings file. A path of a settings value is one  *)
(* element of the value: a run of characters that holds no separator and   *)
(* no placeholder.                                                         *)
(***************************************************************************)
\* Path(config_path): the file that a path of one run names
Path(config_path) == config_path[1]

\* a reading of the settings that takes a missing or empty key for an empty
\* list of paths
_load_config_paths_defaulting(self, pathsep, settings) ==
    IF settings = None
    THEN RaiseConfigError(<<"Prod settings file not found">>)
    ELSE Return([software |-> <<>>, pipeline |-> <<>>])

\* ProductionEnvironment._load_config_paths; settings is the settings file
\* at _get_settings_path(), None when it does not exist
_load_config_paths(self, pathsep, settings) ==
    IF settings = None
    THEN RaiseConfigError(<<"Prod settings file not found">>)
    ELSE LET loaded_settings ==
                [ConfigManager_init EXCEPT !.config_parser = parser_read(@, settings[1])]
             software_config_path ==
                get_merged_config(loaded_settings, "environment", "SOFTWARE_CONFIG",
                                  Some(<<>>)).value
             pipeline_config_path ==
                get_merged_config(loaded_settings, "environment", "PIPELINE_CONFIG",
                                  Some(<<>>)).value
             software_paths == _expand_paths(self, pathsep, software_config_path)
             pipeline_paths == _expand_paths(self, pathsep, pipeline_config_path)
         IN  IF ~has_section(loaded_settings, "environment")
             THEN RaiseConfigError(<<"Missing 'environment' section in prod settings file">>)
             ELSE IF software_config_path = <<>> \/ pipeline_config_path = <<>>
             THEN RaiseConfigError(
                    <<"Missing SOFTWARE_CONFIG or PIPELINE_CONFIG in prod settings">>)
             ELSE Return([software |-> [i \in 1..Len(software_paths) |->
                                            Path(software_paths[i])],
                          pipeline |-> [i \in 1..Len(pipeline_paths) |->
                                            Path(pipeline_paths[i])]])

\* the load_config calls that _parse_software_config and
\* _parse_pipeline_config make for a list of paths
_parse_config_loads(paths) == SelectSeq(paths, path_exists)

\* ProductionEnvironment(prod_name): the exception that leaves __init__, or
\* the instance, and the sources loaded into the two stores on the way
ProductionEnvironment_new(prod_name, pathsep, settings) ==
    LET config_paths == _load_config_paths([prod_name |-> prod_name], pathsep, settings)
    IN  IF config_paths.kind # "return"
        THEN [outcome |-> [kind |-> config_paths.kind, error |-> config_paths.error],
              instance |-> None,
              loads |-> <<>>]
        ELSE [outcome |-> [kind |-> "return", error |-> <<>>],
              instance |-> Some(ProductionEnvironment_init(prod_name, config_paths.value)),
              loads |-> _parse_config_loads(config_paths.value.software)
                            \o _parse_config_loads(config_paths.value.pipeline)]

(***************************************************************************)
(* EnvironmentManager on a POSIX host (platform.system() is not "Windows", *)
(* os.path is posixpath). The value of a variable is a sequence of paths   *)
(* and separators, each path one element; a plain value is one element and *)
(* "" is the empty sequence. A call works on the manager and on os.environ *)
(* together: [self, os_environ].                                           *)
(***************************************************************************)
\* EnvironmentManager.__init__: two copies of os.environ
EnvironmentManager_new(environ) ==
    [original_env |-> environ, current_env |-> environ, env_variables |-> EmptyMap]

\* d[key] = value
dict_setitem(d, key, value) ==
    [k \in DOMAIN d \cup {key} |-> IF k = key THEN value ELSE d[k]]

\* EnvironmentManager._set_environment_variable
_set_environment_variable(process, key, value) ==
    [self |-> [process.self EXCEPT !.current_env = dict_setitem(@, key, value)],
     os_environ |-> dict_setitem(process.os_environ, key, value)]

\* the loop of set_environment_variables over the keys that are left
RECURSIVE set_each_variable(_, _, _)
set_each_variable(process, variables, keys) ==
    IF keys = {} THEN process
    ELSE LET key == CHOOSE k \in keys : TRUE
         IN  set_each_variable(_set_environment_variable(process, key, variables[key]),
                               variables, keys \ {key})

\* EnvironmentManager.set_environment_variables
EnvironmentManager_set_environment_variables(process, variables) ==
    set_each_variable(
        [process EXCEPT !.self = set_environment_variables(@, variables)],
        variables, DOMAIN variables)

\* EnvironmentManager._format_paths: os.path.expandvars leaves a path
\* without '$' as it is, and the host is not Windows
_format_paths(paths) == paths

\* EnvironmentManager._get_path_separator on a host that is not Windows
_get_path_separator == ":"

\* str.lower and os.path.normpath on the paths of the model
str_lower(path) == IF path = "/USR/BIN" THEN "/usr/bin" ELSE path
normpath(path) == IF path = "/opt/bin/" THEN "/opt/bin" ELSE path

\* EnvironmentManager._normalize_path; os.path.normpath("") is "."
_normalize_path(path) ==
    IF path = <<>> THEN <<".">>
    ELSE [i \in 1..Len(path) |-> normpath(str_lower(path[i]))]

\* the inner loop of set_path_variables from the i-th formatted path on
RECURSIVE prepend_paths(_, _, _, _, _)
prepend_paths(existing_path, formatted_paths, separator, new_path, i) ==
    IF i > Len(formatted_paths) THEN new_path
    ELSE LET path == formatted_paths[i]
             norm_path == _normalize_path(path)
             entries == str_split(existing_path, separator)
             add == /\ existing_path # <<>>
                    /\ \A j \in 1..Len(entries) : norm_path # _normalize_path(entries[j])
         IN  prepend_paths(existing_path, formatted_paths, separator,
                           IF add
                           THEN (IF new_path # <<>>
                                 THEN path \o <<separator>> \o new_path
                                 ELSE path)
                           ELSE new_path,
                           i + 1)

\* the loop of set_path_variables over the keys that are left
RECURSIVE set_each_path_variable(_, _, _)
set_each_path_variable(process, path_variables, keys) ==
    IF keys = {} THEN process
    ELSE LET key == CHOOSE k \in keys : TRUE
             existing_path == IF key \in DOMAIN process.self.current_env
                              THEN process.self.current_env[key] ELSE <<>>
             new_path == prepend_paths(existing_path, _format_paths(path_variables[key]),
                                       _get_path_separator, existing_path, 1)
         IN  set_each_path_variable(_set_environment_variable(process, key, new_path),
                                    path_variables, keys \ {key})

\* EnvironmentManager.set_path_variables
EnvironmentManager_set_path_variables(process, path_variables) ==
    set_each_path_variable(process, path_variables, DOMAIN path_variables)

\* EnvironmentManager.reset_environment
EnvironmentManager_reset_environment(process) ==
    LET self == process.self
        deleted == [k \in DOMAIN process.os_environ \ DOMAIN self.env_variables |->
                        process.os_environ[k]]
        restored_keys == {k \in DOMAIN self.original_env :
                            k \notin DOMAIN deleted /\ k \in DOMAIN self.env_variables}
        restored == [k \in DOMAIN deleted \cup restored_keys |->
                        IF k \in DOMAIN deleted THEN deleted[k] ELSE self.original_env[k]]
    IN  [self |-> [self EXCEPT !.current_env = restored, !.env_variables = EmptyMap],
         os_environ |-> restored]

(***************************************************************************)
(* A ProductionEnvironment in its process: [self, os_environ].             *)
(***************************************************************************)
\* ProductionEnvironment.__init__ in a process: the EnvironmentManager copies
\* os.environ
ProductionEnvironment_in_process(prod_name, config_paths, environ) ==
    [ProductionEnvironment_init(prod_name, config_paths)
        EXCEPT !.env_manager = EnvironmentManager_new(environ)]

\* activate up to the call of source_interactive_shell: the variables of the
\* pipeline configuration are stored in the manager and written to
\* os.environ
activate_in_process(process) ==
    LET env_variables == get_environment_variables(process.self.pipeline_config)
        done == EnvironmentManager_set_environment_variables(
                    [self |-> process.self.env_manager,
                     os_environ |-> process.os_environ],
                    env_variables)
    IN  [self |-> [process.self EXCEPT !.env_manager = done.self],
         os_environ |-> done.os_environ]

\* execute_software in a process: execute_with_rez starts rez with
\* subprocess.run or subprocess.Popen without env=, so that the launched
\* process inherits os.environ
execute_software_in_process(process, software_name, additional_packages) ==
    LET done == execute_software(process.self, software_name, additional_packages,
                                 FALSE, FALSE)
    IN  [outcome |-> done.outcome,
         launched |-> [i \in 1..Len(done.rez_calls) |->
                        [rez_call |-> done.rez_calls[i],
                         environ |-> process.os_environ]]]

(***************************************************************************)
(* Idle values of the groups of variables.                                 *)
(***************************************************************************)
NotCalled == [kind |-> "pending", value |-> <<>>, error |-> <<>>]
NoCall == [op |-> "none", raised |-> FALSE, cleared |-> 0]
NoExec == [called |-> FALSE, software_name |-> "", additional_packages |-> None,
           env_only |-> FALSE]

ConfigIdle ==
    /\ cm = ConfigManager_init
    /\ loaded = <<>>
    /\ overrides_log = <<>>
    /\ last_call = NoCall

MergeIdle ==
    /\ arg_base = <<>>
    /\ arg_overrides = <<>>
    /\ merged = NotCalled

NotActivated == [called |-> FALSE,
                 script |-> [prod_name |-> "", exports |-> EmptyMap,
                             software_list |-> <<>>],
                 outcome |-> [kind |-> "pending", error |-> <<>>]]

ExecIdle ==
    /\ prod_env = ProductionEnvironment_init("", [software |-> <<>>, pipeline |-> <<>>])
    /\ exec_call = NoExec
    /\ exec_outcome = [kind |-> "pending", error |-> <<>>]
    /\ rez_calls = <<>>
    /\ activation = NotActivated

NotRun == [called |-> FALSE, value |-> <<>>]

PathIdle ==
    /\ path_self = [prod_name |-> ""]
    /\ os_pathsep = ":"
    /\ joined = [paths |-> <<>>, sep |-> ":"]
    /\ arg_path = <<>>
    /\ split_result = NotRun
    /\ expand_result = NotRun

\* the stores of a production without any configuration source
NoStores == [software_config |-> ConfigManager_init,
             pipeline_config |-> ConfigManager_init]
NotParsed == [op |-> "none", software_name |-> "", result |-> PyReturn("list", <<>>)]

ParseIdle ==
    /\ parse_env = NoStores
    /\ parse_raw = [common |-> "[]", software |-> "[]"]
    /\ parse_result = NotParsed

NoLookup == [op |-> "none", section |-> "", key |-> "", default |-> None,
             result |-> <<>>]
LookupIdle ==
    /\ lookup = NoLookup
    /\ failed_for = ""

NoEnvCall == [op |-> "none", key |-> "", paths |-> <<>>, previous |-> <<>>, count |-> 0]
EnvironIdle ==
    /\ os_environ = EmptyMap
    /\ manager = EnvironmentManager_new(EmptyMap)
    /\ env_call = NoEnvCall
    /\ initial_environ = EmptyMap

NoTwoCall == [instance |-> 0, op |-> "none", result |-> <<>>, count |-> 0]
TwoIdle ==
    /\ instances = <<>>
    /\ two_call = NoTwoCall

NotConstructed == [called |-> FALSE, outcome |-> [kind |-> "pending", error |-> <<>>],
                   instance |-> None, loads |-> <<>>]
ConstructIdle ==
    /\ settings_file = None
    /\ construct_arg = [prod_name |-> "", pathsep |-> ":"]
    /\ construction = NotConstructed

(***************************************************************************)
(* Spec: the methods of one ConfigManager, called in any order.            *)
(***************************************************************************)
\* the (section, key, value) arguments of set_override: a key the files
\* define, with two values of which one is empty, a key no file defines, and
\* a section no file defines
OverrideArgs == {<<"maya", "version", "2025.1">>, <<"maya", "version", "">>,
                 <<"maya", "license", "floating">>, <<"render", "version", "2025.1">>}
OverrideSections == {a[1] : a \in OverrideArgs}
OverrideKeys == {a[2] : a \in OverrideArgs}

Init == ConfigIdle /\ MergeIdle /\ ExecIdle /\ PathIdle /\ ParseIdle /\ ConstructIdle /\ LookupIdle /\ EnvironIdle /\ TwoIdle

LoadConfig ==
    \E config_path \in ConfigPaths :
        IF load_config_raises(config_path)
        THEN /\ last_call' = [op |-> "load_config", raised |-> TRUE, cleared |-> 0]
             /\ UNCHANGED <<cm, loaded, overrides_log, merge_vars, exec_vars, path_vars, parse_vars, construct_vars, lookup_vars, environ_vars, two_vars>>
        ELSE /\ Len(loaded) < MaxLoads
             /\ cm' = load_config(cm, config_path)
             /\ loaded' = Append(loaded, config_path)
             /\ last_call' = [op |-> "load_config", raised |-> FALSE, cleared |-> 0]
             /\ UNCHANGED <<overrides_log, merge_vars, exec_vars, path_vars, parse_vars, construct_vars, lookup_vars, environ_vars, two_vars>>

MergeConfigs ==
    \E configs \in SeqsUpTo(ConfigPaths, MaxMergeLen) :
        LET existing == SelectSeq(configs, path_exists)
        IN  /\ Len(loaded) + Len(existing) <= MaxLoads
            /\ cm' = merge_configs(cm, configs)
            /\ loaded' = loaded \o existing
            /\ last_call' = [op |-> "merge_configs", raised |-> FALSE, cleared |-> 0]
            /\ UNCHANGED <<overrides_log, merge_vars, exec_vars, path_vars, parse_vars, construct_vars, lookup_vars, environ_vars, two_vars>>

SetOverride ==
    \E args \in OverrideArgs :
        /\ Len(overrides_log) < MaxOverrides
        /\ cm' = set_override(cm, args[1], args[2], args[3])
        /\ overrides_log' = Append(overrides_log,
                                   [section |-> args[1], key |-> args[2], value |-> args[3]])
        /\ last_call' = [op |-> "set_override", raised |-> FALSE, cleared |-> 0]
        /\ UNCHANGED <<loaded, merge_vars, exec_vars, path_vars, parse_vars, construct_vars, lookup_vars, environ_vars, two_vars>>

ClearOverrides ==
    /\ cm' = clear_overrides(cm)
    /\ overrides_log' = <<>>
    /\ last_call' = [op |-> "clear_overrides", raised |-> FALSE,
                     cleared |-> Len(overrides_log)]
    /\ UNCHANGED <<loaded, merge_vars, exec_vars, path_vars, parse_vars, construct_vars, lookup_vars, environ_vars, two_vars>>

Next == LoadConfig \/ MergeConfigs \/ SetOverride \/ ClearOverrides

Spec == Init /\ [][Next]_vars

(***************************************************************************)
(* MergeSpec: _merge_packages on two package lists.                        *)
(***************************************************************************)
\* identifiers of the families a, ab, b and c, one of them without a version
PackageIds == {<<"a", "-", "1">>, <<"a", "-", "2">>, <<"a", "b", "-", "1">>,
               <<"b", "-", "1">>, <<"c", "-", "1">>, <<"a">>}

MergeInit ==
    /\ ConfigIdle
    /\ ExecIdle
    /\ PathIdle
    /\ ParseIdle
    /\ ConstructIdle
    /\ LookupIdle
    /\ EnvironIdle
    /\ TwoIdle
    /\ arg_base \in SeqsUpTo(PackageIds, MaxBase)
    /\ arg_overrides \in SeqsUpTo(PackageIds, MaxExtra)
    /\ merged = NotCalled

MergePackages ==
    /\ merged = NotCalled
    /\ merged' = _merge_packages(arg_base, arg_overrides)
    /\ UNCHANGED <<arg_base, arg_overrides, config_vars, exec_vars, path_vars, parse_vars, construct_vars, lookup_vars, environ_vars, two_vars>>

MergeNext == MergePackages

MergeSpec == MergeInit /\ [][MergeNext]_vars

(***************************************************************************)
(* ExecSpec: execute_software on a constructed ProductionEnvironment.      *)
(***************************************************************************)
SoftwarePaths == {"studio/software.ini", "prod/software.ini", "shot/software.ini",
                  "dev/software.ini", "absent.ini"}
PipelinePaths == {"studio/pipeline.ini", "prod/pipeline.ini", "absent.ini"}
SoftwareNames == {"maya", "nuke", "houdini", "unknownSoftware"}
AdditionalPackages == {None, Some(<<>>), Some(<<golaem_5>>), Some(<<mtoa_2_3>>),
                       Some(<<mtoa_2_3, golaem_5>>)}

\* the production names a ProductionEnvironment is constructed with
ProdNames == {"dlt", "test_prod"}

ExecInit ==
    /\ ConfigIdle
    /\ MergeIdle
    /\ PathIdle
    /\ ParseIdle
    /\ ConstructIdle
    /\ LookupIdle
    /\ EnvironIdle
    /\ TwoIdle
    /\ \E prod_name \in ProdNames,
          software \in SeqsUpTo(SoftwarePaths, MaxConfigPaths),
          pipeline \in SeqsUpTo(PipelinePaths, MaxConfigPaths) :
            prod_env = ProductionEnvironment_init(
                            prod_name, [software |-> software, pipeline |-> pipeline])
    /\ exec_call = NoExec
    /\ exec_outcome = [kind |-> "pending", error |-> <<>>]
    /\ rez_calls = <<>>
    /\ activation = NotActivated

ExecuteSoftware ==
    \E software_name \in SoftwareNames, additional_packages \in AdditionalPackages,
       env_only \in BOOLEAN :
        LET done == execute_software(prod_env, software_name, additional_packages,
                                     env_only, FALSE)
        IN  /\ ~exec_call.called
            /\ exec_call' = [called |-> TRUE, software_name |-> software_name,
                             additional_packages |-> additional_packages,
                             env_only |-> env_only]
            /\ exec_outcome' = done.outcome
            /\ rez_calls' = done.rez_calls
            /\ UNCHANGED <<prod_env, activation, config_vars, merge_vars, path_vars, parse_vars, construct_vars, lookup_vars, environ_vars, two_vars>>

Activate ==
    LET done == activate(prod_env)
    IN  /\ prod_env' = done.self
        /\ activation' = [called |-> TRUE, script |-> done.script,
                          outcome |-> done.outcome]
        /\ UNCHANGED <<exec_call, exec_outcome, rez_calls, config_vars, merge_vars, path_vars, parse_vars, construct_vars, lookup_vars, environ_vars, two_vars>>

ExecNext == ExecuteSoftware \/ Activate

ExecSpec == ExecInit /\ [][ExecNext]_vars

(***************************************************************************)
(* PathSpec: split_paths and _expand_paths applied to one string.          *)
(***************************************************************************)
\* the paths that are joined: Windows drive-letter paths, Unix paths, a
\* relative name, a path that holds '@', a template and the empty string
PathPool ==
    {<<>>,
     <<"C", ":", "\\", "a">>,
     <<"D", ":", "/", "b">>,
     <<"C", ":", "\\", "a", "@", "b">>,
     <<"/", "u">>,
     <<"/", "1">>,
     <<"b">>,
     <<"/", "{PROD_NAME}", "/", "1">>}

\* the characters of the free strings
PathChars == {"a", "1", ":", ";", "/", "\\", "@"}

\* ":".join(paths), for any separator
RECURSIVE Join(_, _)
Join(paths, sep) ==
    IF paths = <<>> THEN <<>>
    ELSE IF Len(paths) = 1 THEN paths[1]
    ELSE paths[1] \o <<sep>> \o Join(Tail(paths), sep)

\* the production names whose paths are expanded: those of ExecSpec and one
\* that holds the ':' that is os.pathsep on a Unix host
ExpandProdNames == ProdNames \cup {"a:1"}

PathInit ==
    /\ ConfigIdle
    /\ MergeIdle
    /\ ExecIdle
    /\ ParseIdle
    /\ ConstructIdle
    /\ LookupIdle
    /\ EnvironIdle
    /\ TwoIdle
    /\ \E prod_name \in ExpandProdNames : path_self = [prod_name |-> prod_name]
    /\ os_pathsep \in {":", ";"}
    /\ \/ \E paths \in SeqsUpTo(PathPool, MaxParts), sep \in {":", ";"} :
            /\ joined = [paths |-> paths, sep |-> sep]
            /\ arg_path = Join(paths, sep)
       \/ \E str \in SeqsUpTo(PathChars, MaxChars) :
            /\ joined = [paths |-> <<str>>, sep |-> ":"]
            /\ arg_path = str
    /\ split_result = NotRun
    /\ expand_result = NotRun

SplitPaths ==
    /\ split_result' = [called |-> TRUE, value |-> split_paths(arg_path)]
    /\ UNCHANGED <<path_self, os_pathsep, joined, arg_path, expand_result,
                   config_vars, merge_vars, exec_vars, parse_vars, construct_vars, lookup_vars, environ_vars, two_vars>>

ExpandPaths ==
    /\ expand_result' = [called |-> TRUE,
                         value |-> _expand_paths(path_self, os_pathsep, arg_path)]
    /\ UNCHANGED <<path_self, os_pathsep, joined, arg_path, split_result,
                   config_vars, merge_vars, exec_vars, parse_vars, construct_vars, lookup_vars, environ_vars, two_vars>>

PathNext == SplitPaths \/ ExpandPaths

PathSpec == PathInit /\ [][PathNext]_vars

(***************************************************************************)
(* ParseSpec: the package getters on stores whose packages values are any  *)
(* raw string.                                                             *)
(***************************************************************************)
\* raw packages values: lists of strings, text that is no Python literal,
\* and literals that are no list
RawPackages ==
    {"[]", "['mtoa-2.2']", "['mtoa-2.3', 'golaem-4']",
     "", "['mtoa-2.2'", "mtoa-2.2", "[mtoa-2.2]",
     "42", "None", "'mtoa-2.2'", "('mtoa-2.2',)", "{[]: 1}"}

\* a software.ini with [maya] and a pipeline.ini with [common] and [maya]
\* that hold the raw values
RawSoftwareFile(software_raw) ==
    [s \in {"maya"} |->
        [k \in {"version", "packages"} |->
            IF k = "version" THEN "2023.3.0" ELSE software_raw]]
RawPipelineFile(common_raw, software_raw) ==
    [s \in {"common", "maya"} |->
        [k \in {"packages"} |-> IF s = "common" THEN common_raw ELSE software_raw]]

ParseInit ==
    /\ ConfigIdle
    /\ MergeIdle
    /\ ExecIdle
    /\ PathIdle
    /\ ConstructIdle
    /\ LookupIdle
    /\ EnvironIdle
    /\ TwoIdle
    /\ \E common_raw \in RawPackages, software_raw \in RawPackages :
        /\ parse_raw = [common |-> common_raw, software |-> software_raw]
        /\ parse_env =
            [software_config |->
                [ConfigManager_init EXCEPT !.config_parser =
                    parser_read(@, RawSoftwareFile(software_raw))],
             pipeline_config |->
                [ConfigManager_init EXCEPT !.config_parser =
                    parser_read(@, RawPipelineFile(common_raw, software_raw))]]
    /\ parse_result = NotParsed

GetRequiredPackages ==
    \E software_name \in {"maya"} :
        /\ parse_result' =
            [op |-> "get_required_packages", software_name |-> software_name,
             result |-> get_required_packages(parse_env.software_config, software_name)]
        /\ UNCHANGED <<parse_env, parse_raw, config_vars, merge_vars, exec_vars, path_vars, construct_vars, lookup_vars, environ_vars, two_vars>>

GetCommonPackages ==
    /\ parse_result' =
        [op |-> "get_common_packages", software_name |-> "",
         result |-> get_common_packages(parse_env.pipeline_config)]
    /\ UNCHANGED <<parse_env, parse_raw, config_vars, merge_vars, exec_vars, path_vars, construct_vars, lookup_vars, environ_vars, two_vars>>

GetSoftwarePackages ==
    \E software_name \in {"maya", "nuke"} :
        /\ parse_result' =
            [op |-> "get_software_packages", software_name |-> software_name,
             result |-> get_software_packages(parse_env.pipeline_config, software_name)]
        /\ UNCHANGED <<parse_env, parse_raw, config_vars, merge_vars, exec_vars, path_vars, construct_vars, lookup_vars, environ_vars, two_vars>>

GetBasePackages ==
    \E software_name \in {"maya"} :
        /\ parse_result' =
            [op |-> "get_base_packages", software_name |-> software_name,
             result |-> get_base_packages(parse_env, software_name)]
        /\ UNCHANGED <<parse_env, parse_raw, config_vars, merge_vars, exec_vars, path_vars, construct_vars, lookup_vars, environ_vars, two_vars>>

ParseNext ==
    GetRequiredPackages \/ GetCommonPackages \/ GetSoftwarePackages \/ GetBasePackages

ParseSpec == ParseInit /\ [][ParseNext]_vars

(***************************************************************************)
(* ConstructSpec: ProductionEnvironment(prod_name) over any settings file. *)
(***************************************************************************)
\* the value that lists paths under the separator sep; no path gives ""
PathList(paths, sep) == Join([i \in 1..Len(paths) |-> <<paths[i]>>], sep)

\* the [environment] sections: each of the two keys is absent, or holds a
\* list of paths of SoftwarePaths and of PipelinePaths
EnvironmentSections(sep) ==
    LET software == {None} \cup {Some(PathList(paths, sep)) :
                                    paths \in SeqsUpTo(SoftwarePaths, MaxConfigPaths)}
        pipeline == {None} \cup {Some(PathList(paths, sep)) :
                                    paths \in SeqsUpTo(PipelinePaths, MaxConfigPaths)}
        keys(sw, pl) == (IF sw = None THEN {} ELSE {"SOFTWARE_CONFIG"})
                            \cup (IF pl = None THEN {} ELSE {"PIPELINE_CONFIG"})
    IN  {[k \in keys(sw, pl) |-> IF k = "SOFTWARE_CONFIG" THEN sw[1] ELSE pl[1]] :
            sw \in software, pl \in pipeline}

\* the settings files: an empty file, a file without [environment], and the
\* files whose only section is [environment]
SettingsFiles(sep) ==
    {[s \in {} |-> EmptyMap],
     [s \in {"logging"} |-> [k \in {"LEVEL"} |-> <<"1">>]]}
        \cup {[s \in {"environment"} |-> section] : section \in EnvironmentSections(sep)}

ConstructInit ==
    /\ ConfigIdle
    /\ MergeIdle
    /\ ExecIdle
    /\ PathIdle
    /\ ParseIdle
    /\ LookupIdle
    /\ EnvironIdle
    /\ TwoIdle
    /\ \E prod_name \in ProdNames, pathsep \in {":", ";"} :
            /\ construct_arg = [prod_name |-> prod_name, pathsep |-> pathsep]
            /\ \/ settings_file = None
               \/ \E settings \in SettingsFiles(pathsep) : settings_file = Some(settings)
    /\ construction = NotConstructed

Construct ==
    LET done == ProductionEnvironment_new(construct_arg.prod_name, construct_arg.pathsep,
                                          settings_file)
    IN  /\ ~construction.called
        /\ construction' = [called |-> TRUE, outcome |-> done.outcome,
                            instance |-> done.instance, loads |-> done.loads]
        /\ UNCHANGED <<settings_file, construct_arg,
                       config_vars, merge_vars, exec_vars, path_vars, parse_vars, lookup_vars, environ_vars, two_vars>>

ConstructNext == Construct

ConstructSpec == ConstructInit /\ [][ConstructNext]_vars

(***************************************************************************)
(* LookupSpec: the lookups of ConfigManager, SoftwareConfig and            *)
(* ProductionEnvironment on a store that was loaded and overridden before. *)
(***************************************************************************)
\* set_override called once for each entry of a log, in order
RECURSIVE set_overrides(_, _)
set_overrides(self, log) ==
    IF log = <<>> THEN self
    ELSE set_overrides(set_override(self, Head(log).section, Head(log).key,
                                    Head(log).value),
                       Tail(log))

LookupInit ==
    /\ MergeIdle
    /\ ExecIdle
    /\ PathIdle
    /\ ParseIdle
    /\ ConstructIdle
    /\ EnvironIdle
    /\ TwoIdle
    /\ \E paths \in SeqsUpTo(ConfigPaths \cap DOMAIN FileSystem, MaxLookupLoads),
          overrides \in SeqsUpTo(OverrideArgs, MaxLookupOverrides) :
            /\ loaded = paths
            /\ overrides_log = [i \in 1..Len(overrides) |->
                                    [section |-> overrides[i][1], key |-> overrides[i][2],
                                     value |-> overrides[i][3]]]
            /\ cm = set_overrides(merge_configs(ConfigManager_init, paths), overrides_log)
    /\ last_call = NoCall
    /\ lookup = NoLookup
    /\ failed_for = ""

\* the sections and the software that are looked up
LookedUpSections == {"maya", "render"}

GetMergedConfig ==
    \E section \in LookedUpSections, default \in {None, Some("")} :
        /\ lookup' = [op |-> "get_merged_config", section |-> section, key |-> "version",
                      default |-> default,
                      result |-> get_merged_config(cm, section, "version", default)]
        /\ UNCHANGED <<failed_for, config_vars, merge_vars, exec_vars, path_vars, parse_vars, construct_vars, environ_vars, two_vars>>

GetSection ==
    \E section \in LookedUpSections :
        /\ lookup' = [op |-> "get_section", section |-> section, key |-> "",
                      default |-> None, result |-> get_section(cm, section)]
        /\ UNCHANGED <<failed_for, config_vars, merge_vars, exec_vars, path_vars, parse_vars, construct_vars, environ_vars, two_vars>>

HasSection ==
    \E section \in LookedUpSections :
        /\ lookup' = [op |-> "has_section", section |-> section, key |-> "",
                      default |-> None, result |-> has_section(cm, section)]
        /\ UNCHANGED <<failed_for, config_vars, merge_vars, exec_vars, path_vars, parse_vars, construct_vars, environ_vars, two_vars>>

GetSections ==
    /\ lookup' = [op |-> "get_sections", section |-> "", key |-> "", default |-> None,
                  result |-> get_sections(cm)]
    /\ UNCHANGED <<failed_for, config_vars, merge_vars, exec_vars, path_vars, parse_vars, construct_vars, environ_vars, two_vars>>

GetSoftwareVersion ==
    \E software_name \in SoftwareNames :
        LET version == get_software_version(cm, software_name)
        IN  /\ lookup' = [op |-> "get_software_version", section |-> software_name,
                          key |-> "", default |-> None, result |-> version]
            /\ failed_for' = IF version.kind = "ConfigError" THEN software_name
                             ELSE failed_for
            /\ UNCHANGED <<config_vars, merge_vars, exec_vars, path_vars, parse_vars, construct_vars, environ_vars, two_vars>>

GetRequiredPackagesOf ==
    \E software_name \in {"maya", "unknownSoftware"} :
        /\ lookup' = [op |-> "get_required_packages", section |-> software_name,
                      key |-> "", default |-> None,
                      result |-> get_required_packages(cm, software_name)]
        /\ UNCHANGED <<failed_for, config_vars, merge_vars, exec_vars, path_vars, parse_vars, construct_vars, environ_vars, two_vars>>

GetSoftwareList ==
    /\ lookup' = [op |-> "get_software_list", section |-> "", key |-> "",
                  default |-> None,
                  result |-> get_software_list([software_config |-> cm])]
    /\ UNCHANGED <<failed_for, config_vars, merge_vars, exec_vars, path_vars, parse_vars, construct_vars, environ_vars, two_vars>>

LookupNext ==
    \/ GetMergedConfig
    \/ GetSection
    \/ HasSection
    \/ GetSections
    \/ GetSoftwareVersion
    \/ GetRequiredPackagesOf
    \/ GetSoftwareList

LookupSpec == LookupInit /\ [][LookupNext]_vars

(***************************************************************************)
(* EnvSpec: one EnvironmentManager in a process.                           *)
(***************************************************************************)
\* os.environ when the manager is constructed: PATH is unset, empty, or a
\* list of one or two paths, and PROD is unset or set
InitialEnvirons ==
    LET path_values == {None, Some(<<>>), Some(<<"/usr/bin">>),
                        Some(<<"/usr/bin", ":", "/opt/bin">>)}
        prod_values == {None, Some(<<"old">>)}
        keys(path, prod) == (IF path = None THEN {} ELSE {"PATH"})
                                \cup (IF prod = None THEN {} ELSE {"PROD"})
    IN  {[k \in keys(path, prod) |-> IF k = "PATH" THEN path[1] ELSE prod[1]] :
            path \in path_values, prod \in prod_values}

\* the variables handed to set_environment_variables
VariableSets ==
    {[k \in {"PROD"} |-> <<"dlt">>],
     [k \in {"STUDIO"} |-> <<"acme">>],
     [k \in {"PROD", "STUDIO"} |-> IF k = "PROD" THEN <<"dlt">> ELSE <<"acme">>]}

\* the lists of paths handed to set_path_variables for one variable
ListedPaths ==
    {<<>>,
     <<<<"/usr/local/bin">>, <<"/opt/bin">>>>,
     <<<<"/usr/bin">>, <<"/usr/local/bin">>>>,
     <<<<"/USR/BIN">>>>,
     <<<<"/opt/bin/">>>>,
     <<<<"/usr/local/bin">>, <<"/usr/local/bin">>>>}
PathVariables == {"PATH", "PYTHONPATH"}

EnvInit ==
    /\ ConfigIdle
    /\ MergeIdle
    /\ ExecIdle
    /\ PathIdle
    /\ ParseIdle
    /\ ConstructIdle
    /\ LookupIdle
    /\ TwoIdle
    /\ os_environ \in InitialEnvirons
    /\ manager = EnvironmentManager_new(os_environ)
    /\ env_call = NoEnvCall
    /\ initial_environ = os_environ

SetEnvironmentVariables ==
    \E variables \in VariableSets :
        LET done == EnvironmentManager_set_environment_variables(
                        [self |-> manager, os_environ |-> os_environ], variables)
        IN  /\ env_call.count < MaxEnvCalls
            /\ manager' = done.self
            /\ os_environ' = done.os_environ
            /\ env_call' = [op |-> "set_environment_variables", key |-> "",
                            paths |-> <<>>, previous |-> <<>>,
                            count |-> env_call.count + 1]
            /\ UNCHANGED <<initial_environ, config_vars, merge_vars, exec_vars, path_vars, parse_vars, construct_vars, lookup_vars, two_vars>>

SetPathVariables ==
    \E key \in PathVariables, paths \in ListedPaths :
        LET done == EnvironmentManager_set_path_variables(
                        [self |-> manager, os_environ |-> os_environ],
                        [k \in {key} |-> paths])
        IN  /\ env_call.count < MaxEnvCalls
            /\ manager' = done.self
            /\ os_environ' = done.os_environ
            /\ env_call' = [op |-> "set_path_variables", key |-> key, paths |-> paths,
                            previous |-> IF key \in DOMAIN os_environ
                                         THEN os_environ[key] ELSE <<>>,
                            count |-> env_call.count + 1]
            /\ UNCHANGED <<initial_environ, config_vars, merge_vars, exec_vars, path_vars, parse_vars, construct_vars, lookup_vars, two_vars>>

ResetEnvironment ==
    LET done == EnvironmentManager_reset_environment(
                    [self |-> manager, os_environ |-> os_environ])
    IN  /\ env_call.count < MaxEnvCalls
        /\ manager' = done.self
        /\ os_environ' = done.os_environ
        /\ env_call' = [op |-> "reset_environment", key |-> "", paths |-> <<>>,
                        previous |-> <<>>, count |-> env_call.count + 1]
        /\ UNCHANGED <<initial_environ, config_vars, merge_vars, exec_vars, path_vars, parse_vars, construct_vars, lookup_vars, two_vars>>

EnvNext == SetEnvironmentVariables \/ SetPathVariables \/ ResetEnvironment

EnvSpec == EnvInit /\ [][EnvNext]_vars

(***************************************************************************)
(* TwoSpec: two ProductionEnvironment instances used in one process.       *)
(***************************************************************************)
Instances == {1, 2}

\* the production name and the config paths of an instance
Constructions ==
    {[prod_name |-> "dlt",
      config_paths |-> [software |-> <<"studio/software.ini">>,
                        pipeline |-> <<"prod/pipeline.ini">>]],
     [prod_name |-> "test_prod",
      config_paths |-> [software |-> <<"shot/software.ini", "dev/software.ini">>,
                        pipeline |-> <<"studio/pipeline.ini">>]],
     [prod_name |-> "dlt",
      config_paths |-> [software |-> <<"prod/software.ini">>,
                        pipeline |-> <<"absent.ini">>]]}

\* the overrides set on the software store of an instance
TwoOverrideArgs == {<<"maya", "version", "2025.1">>, <<"render", "version", "2025.1">>}

TwoInit ==
    /\ ConfigIdle
    /\ MergeIdle
    /\ ExecIdle
    /\ PathIdle
    /\ ParseIdle
    /\ ConstructIdle
    /\ LookupIdle
    /\ EnvironIdle
    /\ \E made \in [Instances -> Constructions] :
            instances = [i \in Instances |->
                            ProductionEnvironment_in_process(
                                made[i].prod_name, made[i].config_paths, os_environ)]
    /\ two_call = NoTwoCall

TwoSetOverride ==
    \E i \in Instances, args \in TwoOverrideArgs :
        /\ two_call.count < MaxTwoCalls
        /\ instances' = [instances EXCEPT
                            ![i].software_config = set_override(@, args[1], args[2], args[3])]
        /\ two_call' = [instance |-> i, op |-> "set_override", result |-> <<>>,
                        count |-> two_call.count + 1]
        /\ UNCHANGED <<environ_vars, config_vars, merge_vars, exec_vars, path_vars, parse_vars, construct_vars, lookup_vars>>

TwoClearOverrides ==
    \E i \in Instances :
        /\ two_call.count < MaxTwoCalls
        /\ instances' = [instances EXCEPT ![i].software_config = clear_overrides(@)]
        /\ two_call' = [instance |-> i, op |-> "clear_overrides", result |-> <<>>,
                        count |-> two_call.count + 1]
        /\ UNCHANGED <<environ_vars, config_vars, merge_vars, exec_vars, path_vars, parse_vars, construct_vars, lookup_vars>>

TwoGetSoftwareList ==
    \E i \in Instances :
        /\ two_call.count < MaxTwoCalls
        /\ two_call' = [instance |-> i, op |-> "get_software_list",
                        result |-> get_software_list(instances[i]),
                        count |-> two_call.count + 1]
        /\ UNCHANGED <<instances, environ_vars, config_vars, merge_vars, exec_vars, path_vars, parse_vars, construct_vars, lookup_vars>>

TwoExecuteSoftware ==
    \E i \in Instances :
        /\ two_call.count < MaxTwoCalls
        /\ two_call' = [instance |-> i, op |-> "execute_software",
                        result |-> execute_software_in_process(
                                        [self |-> instances[i], os_environ |-> os_environ],
                                        "maya", Some(<<golaem_5>>)),
                        count |-> two_call.count + 1]
        /\ UNCHANGED <<instances, environ_vars, config_vars, merge_vars, exec_vars, path_vars, parse_vars, construct_vars, lookup_vars>>

TwoActivate ==
    \E i \in Instances :
        LET done == activate_in_process([self |-> instances[i], os_environ |-> os_environ])
        IN  /\ two_call.count < MaxTwoCalls
            /\ instances' = [instances EXCEPT ![i] = done.self]
            /\ os_environ' = done.os_environ
            /\ two_call' = [instance |-> i, op |-> "activate", result |-> <<>>,
                            count |-> two_call.count + 1]
            /\ UNCHANGED <<manager, env_call, initial_environ, config_vars, merge_vars, exec_vars, path_vars, parse_vars, construct_vars, lookup_vars>>

TwoNext ==
    \/ TwoSetOverride
    \/ TwoClearOverrides
    \/ TwoGetSoftwareList
    \/ TwoExecuteSoftware
    \/ TwoActivate

TwoSpec == TwoInit /\ [][TwoNext]_vars

(***************************************************************************)
(* What the histories say a lookup must give.                              *)
(***************************************************************************)
\* every section and key of a file or of a set_override call, and one of
\* each that nothing defines
LookupSections ==
    UNION {DOMAIN FileSystem[p] : p \in DOMAIN FileSystem}
        \cup OverrideSections \cup {"unknownSoftware"}
LookupKeys ==
    UNION {UNION {DOMAIN FileSystem[p][s] : s \in DOMAIN FileSystem[p]} :
                p \in DOMAIN FileSystem}
        \cup OverrideKeys \cup {"missing"}
SuppliedDefaults == {"", "fallback"}
Defaults == {None} \cup {Some(d) : d \in SuppliedDefaults}

\* the set_override calls since the last clear that wrote (section, key)
OverrideCalls(section, key) ==
    {i \in 1..Len(overrides_log) :
        overrides_log[i].section = section /\ overrides_log[i].key = key}
OverrideDefines(section, key) == OverrideCalls(section, key) # {}
OverrideValue(section, key) == overrides_log[Max(OverrideCalls(section, key))].value

\* the loaded sources that define (section, key), by their place in the order
DefiningLoads(section, key) ==
    {i \in 1..Len(loaded) :
        /\ section \in DOMAIN FileSystem[loaded[i]]
        /\ key \in DOMAIN FileSystem[loaded[i]][section]}
BaseDefines(section, key) == DefiningLoads(section, key) # {}
MostRecentValue(section, key) ==
    FileSystem[loaded[Max(DefiningLoads(section, key))]][section][key]

\* C1: when the override layer defines (section, key), get_merged_config
\* returns the value last set for it, whatever the loaded sources hold for
\* that key and whatever default is supplied.
OverridePrecedence ==
    \A section \in LookupSections, key \in LookupKeys, default \in Defaults :
        OverrideDefines(section, key) =>
            get_merged_config(cm, section, key, default)
                = Return(OverrideValue(section, key))

\* an override hides a key that two or more loaded sources define otherwise
OverridePrecedenceWitness ==
    \E section \in LookupSections, key \in LookupKeys :
        /\ OverrideDefines(section, key)
        /\ \E i \in DefiningLoads(section, key), j \in DefiningLoads(section, key) :
                FileSystem[loaded[i]][section][key] # FileSystem[loaded[j]][section][key]
        /\ MostRecentValue(section, key) # OverrideValue(section, key)

\* C2: when the override layer does not define (section, key),
\* get_merged_config returns the value of the most recently loaded source
\* that defines that key, also when later sources define the section
\* without the key.
LoadOrderPrecedence ==
    \A section \in LookupSections, key \in LookupKeys, default \in Defaults :
        (~OverrideDefines(section, key) /\ BaseDefines(section, key)) =>
            get_merged_config(cm, section, key, default)
                = Return(MostRecentValue(section, key))

\* three sources are loaded, two of them define the key with different values
\* and the last one defines the section without the key
LoadOrderPrecedenceWitness ==
    /\ Len(loaded) = 3
    /\ \E section \in LookupSections, key \in LookupKeys :
        /\ ~OverrideDefines(section, key)
        /\ DefiningLoads(section, key) = {1, 2}
        /\ FileSystem[loaded[1]][section][key] # FileSystem[loaded[2]][section][key]
        /\ section \in DOMAIN FileSystem[loaded[3]]

\* C3: for a key that neither the override layer nor a loaded source
\* defines, get_merged_config returns the supplied default, the empty string
\* included, and without a default raises ConfigError naming section.key.
MissingKeyDefaultOrError ==
    \A section \in LookupSections, key \in LookupKeys :
        (~OverrideDefines(section, key) /\ ~BaseDefines(section, key)) =>
            /\ \A d \in SuppliedDefaults :
                get_merged_config(cm, section, key, Some(d)) = Return(d)
            /\ get_merged_config(cm, section, key, None)
                = RaiseConfigError(<<"Configuration key not found: ", section, ".", key>>)

\* a section that both layers hold lacks a key: the empty default comes back
MissingKeyWitness ==
    \E section \in LookupSections, key \in LookupKeys :
        /\ parser_has_section(cm.config_parser, section)
        /\ parser_has_section(cm.override_config, section)
        /\ ~OverrideDefines(section, key)
        /\ ~BaseDefines(section, key)
        /\ get_merged_config(cm, section, key, Some("")) = Return("")
        /\ get_merged_config(cm, section, key, None).kind = "ConfigError"

\* C4: get_section holds a key iff the override layer or a loaded source
\* defines it in that section, with the override value if there is one and
\* else the value of the most recently loaded source defining that key.
SectionIsPerKeyUnion ==
    \A section \in LookupSections :
        LET result == get_section(cm, section)
        IN  /\ DOMAIN result =
                {key \in LookupKeys :
                    OverrideDefines(section, key) \/ BaseDefines(section, key)}
            /\ \A key \in DOMAIN result :
                result[key] = IF OverrideDefines(section, key)
                              THEN OverrideValue(section, key)
                              ELSE MostRecentValue(section, key)

\* one section takes one key from an earlier source, another key from a later
\* source, and has an overridden key that a source defines too
SectionIsPerKeyUnionWitness ==
    \E section \in LookupSections :
        \E k1 \in LookupKeys, k2 \in LookupKeys, k3 \in LookupKeys :
            /\ ~OverrideDefines(section, k1) /\ BaseDefines(section, k1)
            /\ OverrideDefines(section, k2) /\ BaseDefines(section, k2)
            /\ Max(DefiningLoads(section, k1)) < Max(DefiningLoads(section, k2))
            /\ OverrideDefines(section, k3) /\ ~BaseDefines(section, k3)
            /\ Len(loaded) = 3
            /\ section \in DOMAIN FileSystem[loaded[3]]
            /\ DOMAIN get_section(cm, section) = {k1, k2, k3}

\* the store with the same loaded sources on which no override was ever set
NeverOverridden == merge_configs(ConfigManager_init, loaded)

\* C5: right after clear_overrides every lookup gives what it gives on a
\* store with the same loaded sources and no override ever set.
ClearOverridesRestoresBase ==
    last_call.op = "clear_overrides" =>
        /\ \A section \in LookupSections, key \in LookupKeys, default \in Defaults :
            get_merged_config(cm, section, key, default)
                = get_merged_config(NeverOverridden, section, key, default)
        /\ \A section \in LookupSections :
            /\ get_section(cm, section) = get_section(NeverOverridden, section)
            /\ has_section(cm, section) = has_section(NeverOverridden, section)
        /\ get_sections(cm) = get_sections(NeverOverridden)

\* two overrides were dropped from a store that holds loaded sources
ClearOverridesWitness ==
    /\ last_call.op = "clear_overrides"
    /\ last_call.cleared = 2
    /\ Len(loaded) >= 2

\* the characters of the section names, in ascending order of code point
CodePointOrder ==
    <<"a", "c", "d", "e", "h", "i", "k", "m", "n", "o", "r", "t", "u", "v", "y">>
CodePoint(c) == CHOOSE i \in 1..Len(CodePointOrder) : CodePointOrder[i] = c

\* a section name, character by character
Spelling(section) ==
    CASE section = "common" -> <<"c", "o", "m", "m", "o", "n">>
      [] section = "environment" ->
            <<"e", "n", "v", "i", "r", "o", "n", "m", "e", "n", "t">>
      [] section = "houdini" -> <<"h", "o", "u", "d", "i", "n", "i">>
      [] section = "maya" -> <<"m", "a", "y", "a">>
      [] section = "nuke" -> <<"n", "u", "k", "e">>
      [] section = "render" -> <<"r", "e", "n", "d", "e", "r">>

\* a is before b in lexicographic order
LexLess(a, b) ==
    \E k \in 1..(Len(b)) :
        /\ k - 1 <= Len(a)
        /\ \A i \in 1..(k - 1) : a[i] = b[i]
        /\ (k > Len(a) \/ CodePoint(a[k]) < CodePoint(b[k]))

StrictlyAscending(sections) ==
    \A i, j \in 1..Len(sections) :
        i < j => LexLess(Spelling(sections[i]), Spelling(sections[j]))

\* the sections that a loaded source or a set_override call since the last
\* clear defines
DefinedSections ==
    UNION {DOMAIN FileSystem[loaded[i]] : i \in 1..Len(loaded)}
        \cup {overrides_log[i].section : i \in 1..Len(overrides_log)}

\* C30: after any sequence of load_config, merge_configs, set_override and
\* clear_overrides, get_sections returns every section of a loaded source or
\* of the override layer exactly once, in ascending lexicographic order; so
\* get_configured_software and get_software_list are in that order too,
\* whatever the order of the loads and whichever layer defines a section.
SectionsSortedOnce ==
    LET sections == get_sections(cm)
        software == get_configured_software(cm)
        software_list == get_software_list([software_config |-> cm])
    IN  /\ {sections[i] : i \in 1..Len(sections)} = DefinedSections
        /\ StrictlyAscending(sections)
        /\ {software[i] : i \in 1..Len(software)}
                = DefinedSections \ {"common", "environment"}
        /\ StrictlyAscending(software)
        /\ StrictlyAscending([i \in 1..Len(software_list) |-> software_list[i].name])

\* sections of both layers, loaded in an order that is not the sorted one:
\* [maya] and [houdini] before [common] and [nuke], and [render] overridden
SectionsSortedOnceWitness ==
    /\ Len(loaded) >= 2
    /\ loaded[1] = "shot/software.ini"
    /\ loaded[2] = "dev/software.ini"
    /\ \E i \in 1..Len(overrides_log) : overrides_log[i].section = "render"
    /\ get_sections(cm) = <<"common", "houdini", "maya", "nuke", "render">>

(***************************************************************************)
(* Claims about the lookups, under LookupSpec.                             *)
(***************************************************************************)
\* what the layers give for the version of a software: the value last set
\* for it, else the value of the last loaded source that defines it, and an
\* error for a software without a section or without a version
LayeredVersion(software_name) ==
    IF software_name \notin DefinedSections THEN [kind |-> "ConfigError", value |-> ""]
    ELSE IF OverrideDefines(software_name, "version")
    THEN [kind |-> "return", value |-> OverrideValue(software_name, "version")]
    ELSE IF BaseDefines(software_name, "version")
    THEN [kind |-> "return", value |-> MostRecentValue(software_name, "version")]
    ELSE [kind |-> "ConfigError", value |-> ""]

\* C26: no lookup changes the base layers or the override layer, whether it
\* returns or raises ConfigError; every version lookup, also one made after
\* a version lookup for another software failed, gives what the layers
\* hold, and get_software_list lists every software whose version resolves,
\* whichever software before it in the listing failed.
LookupsArePureReads ==
    [][/\ cm' = cm
       /\ lookup'.op = "get_software_version" =>
            /\ lookup'.result.kind = LayeredVersion(lookup'.section).kind
            /\ lookup'.result.value = LayeredVersion(lookup'.section).value
       /\ lookup'.op = "get_software_list" =>
            {<<lookup'.result[i].name, lookup'.result[i].version>> :
                    i \in 1..Len(lookup'.result)}
                = {<<software_name, LayeredVersion(software_name).value>> :
                    software_name \in
                        {name \in DefinedSections \ {"common", "environment"} :
                            LayeredVersion(name).kind = "return"}}]_vars

\* the version of houdini, a section without a version, did not resolve and
\* the version of maya is then looked up on a store that holds an override
LookupsArePureReadsWitness ==
    /\ failed_for = "houdini"
    /\ lookup.op = "get_software_version"
    /\ lookup.section = "maya"
    /\ lookup.result.kind = "return"
    /\ overrides_log # <<>>
    /\ cm.override_config # NewParser

(***************************************************************************)
(* Claims about EnvironmentManager, under EnvSpec.                         *)
(***************************************************************************)
\* C27: right after reset_environment, whatever set_environment_variables
\* and set_path_variables calls came before, the process environment is the
\* one of the manager's construction, current_env equals it and
\* env_variables is empty.
ResetRestoresEnvironment ==
    env_call.op = "reset_environment" =>
        /\ os_environ = initial_environ
        /\ manager.current_env = initial_environ
        /\ manager.env_variables = EmptyMap

\* the entries of a value, and the listed paths that are none of them; two
\* spellings that normalise to one path are one entry
EntriesOf(value) ==
    IF value = <<>> THEN {}
    ELSE {_normalize_path(str_split(value, ":")[i]) :
            i \in 1..Len(str_split(value, ":"))}
NewPaths(paths, previous) ==
    SelectSeq(paths, LAMBDA path : _normalize_path(path) \notin EntriesOf(previous))

\* the paths of a list joined in reverse order, the last one first
RECURSIVE ReversedJoin(_)
ReversedJoin(paths) ==
    IF paths = <<>> THEN <<>>
    ELSE IF Len(paths) = 1 THEN paths[1]
    ELSE ReversedJoin(Tail(paths)) \o <<":">> \o paths[1]

\* C28: right after set_path_variables the variable holds every listed path
\* that is no entry of its previous value, the later-listed first, ahead of
\* the previous value, for any previous value, empty or unset included.
PathsPrependedToPrevious ==
    env_call.op = "set_path_variables" =>
        LET added == ReversedJoin(NewPaths(env_call.paths, env_call.previous))
        IN  os_environ[env_call.key] =
                IF added = <<>> THEN env_call.previous
                ELSE IF env_call.previous = <<>> THEN added
                ELSE added \o <<":">> \o env_call.previous

(***************************************************************************)
(* Claims about two instances, under TwoSpec.                              *)
(***************************************************************************)
\* what an instance shows to its caller: its stores, its software list, its
\* EnvironmentManager, and what execute_software launches through it
ObservableThrough(self, environ) ==
    [software_config |-> self.software_config,
     pipeline_config |-> self.pipeline_config,
     software_list |-> get_software_list(self),
     env_manager |-> self.env_manager,
     launched |-> execute_software_in_process([self |-> self, os_environ |-> environ],
                                              "maya", Some(<<golaem_5>>)).launched]

\* C23: no call on one instance changes anything that the other instance
\* shows.
InstancesShareNoState ==
    [][\A j \in Instances :
        two_call'.instance # j =>
            ObservableThrough(instances'[j], os_environ')
                = ObservableThrough(instances[j], os_environ)]_vars

(***************************************************************************)
(* Claims about _merge_packages, under MergeSpec.                          *)
(***************************************************************************)
\* the family of a package identifier: the text before its first hyphen, or
\* all of it when it has no hyphen
Family(pkg) ==
    IF \E i \in 1..Len(pkg) : pkg[i] = "-"
    THEN SubSeq(pkg, 1, Min({i \in 1..Len(pkg) : pkg[i] = "-"}) - 1)
    ELSE pkg

\* the part of the merged list that comes before the appended overrides
SurvivingBase ==
    SubSeq(merged.value, 1, Len(merged.value) - Len(arg_overrides))

MergeRemovesExactlyFirstFamily ==
    (merged # NotCalled /\ arg_overrides # <<>>) =>
        LET other_family(p) == Family(p) # Family(arg_overrides[1])
        IN  /\ merged.kind = "return"
            /\ SurvivingBase = SelectSeq(arg_base, other_family)

\* C9: no base identifier that shares its family with any override
\* identifier is left in the result.
MergeReplacesEveryOverriddenFamily ==
    (merged # NotCalled /\ merged.kind = "return") =>
        \A i \in 1..Len(SurvivingBase), j \in 1..Len(arg_overrides) :
            Family(SurvivingBase[i]) # Family(arg_overrides[j])

\* s is t with some elements left out, the rest in t's order
RECURSIVE IsSubsequence(_, _)
IsSubsequence(s, t) ==
    IF s = <<>> THEN TRUE
    ELSE IF t = <<>> THEN FALSE
    ELSE IF Head(s) = Head(t) THEN IsSubsequence(Tail(s), Tail(t))
    ELSE IsSubsequence(s, Tail(t))

LoadedSoftware == SelectSeq(prod_env.config_paths.software, path_exists)

VersionLoads(software_name) ==
    {i \in 1..Len(LoadedSoftware) :
        /\ software_name \in DOMAIN FileSystem[LoadedSoftware[i]]
        /\ "version" \in DOMAIN FileSystem[LoadedSoftware[i]][software_name]}

LoadedPipeline == SelectSeq(prod_env.config_paths.pipeline, path_exists)

\* the sources of paths that give section a packages key, by their place
PackagesLoads(paths, section) ==
    {i \in 1..Len(paths) :
        /\ section \in DOMAIN FileSystem[paths[i]]
        /\ "packages" \in DOMAIN FileSystem[paths[i]][section]}

\* the list that the packages value of the last such source encodes
LatestPackages(paths, section) ==
    IF PackagesLoads(paths, section) = {} THEN <<>>
    ELSE parse_packages(
            FileSystem[paths[Max(PackagesLoads(paths, section))]][section]["packages"]).value

\* the sections of the loaded software sources
SoftwareSections ==
    UNION {DOMAIN FileSystem[LoadedSoftware[i]] : i \in 1..Len(LoadedSoftware)}

Contains(list, pkg) == \E i \in 1..Len(list) : list[i] = pkg

\* C11: get_base_packages is the common packages of the pipeline store, then
\* the pipeline store's packages of the software, then the software store's
\* packages of the software; so with common packages [vfxCore-2.5] and maya
\* packages [mtoa-2.3, golaem-4], executing maya with [golaem-5] hands the
\* launcher vfxCore-2.5, mtoa-2.3 and golaem-5 but not golaem-4.
BasePackagesInFixedOrder ==
    /\ \A software_name \in SoftwareNames :
        software_name \in SoftwareSections =>
            get_base_packages(prod_env, software_name)
                = PyReturn("list", LatestPackages(LoadedPipeline, "common")
                    \o LatestPackages(LoadedPipeline, software_name)
                    \o LatestPackages(LoadedSoftware, software_name))
    /\ (/\ exec_call.called
        /\ exec_call.software_name = "maya"
        /\ exec_call.additional_packages = Some(<<golaem_5>>)
        /\ VersionLoads("maya") # {}
        /\ LatestPackages(LoadedPipeline, "common") = <<vfxCore_2_5>>
        /\ LatestPackages(LoadedSoftware, "maya") = <<mtoa_2_3, golaem_4>>) =>
            /\ Len(rez_calls) = 1
            /\ Contains(rez_calls[1].packages, vfxCore_2_5)
            /\ Contains(rez_calls[1].packages, mtoa_2_3)
            /\ Contains(rez_calls[1].packages, golaem_5)
            /\ ~Contains(rez_calls[1].packages, golaem_4)

BasePackagesInFixedOrderWitness ==
    /\ exec_call.called
    /\ exec_call.software_name = "maya"
    /\ exec_call.additional_packages = Some(<<golaem_5>>)
    /\ LatestPackages(LoadedPipeline, "common") = <<vfxCore_2_5>>
    /\ LatestPackages(LoadedPipeline, "maya") = <<golaem_4>>
    /\ LatestPackages(LoadedSoftware, "maya") = <<mtoa_2_3, golaem_4>>
    /\ Len(rez_calls) = 1
    /\ rez_calls[1].packages = <<vfxCore_2_5, mtoa_2_3, golaem_5>>

\* C12: execute_software for a software that no loaded source of the software
\* store gives a section raises a ConfigError whose message names that
\* software, whatever the additional packages, and never calls the launcher.
UnknownSoftwareRaisesConfigError ==
    (exec_call.called /\ exec_call.software_name \notin SoftwareSections) =>
        /\ exec_outcome.kind = "ConfigError"
        /\ \E i \in 1..Len(exec_outcome.error) :
                exec_outcome.error[i] = exec_call.software_name
        /\ rez_calls = <<>>

UnknownSoftwareWitness ==
    /\ exec_call.called
    /\ exec_call.software_name = "unknownSoftware"
    /\ exec_call.additional_packages = Some(<<>>)
    /\ LoadedSoftware # <<>>
    /\ exec_outcome.kind = "ConfigError"

\* the software that get_software_list must list: the sections of the loaded
\* software sources, the two reserved ones apart, to which some loaded source
\* gives a version
VersionedSoftware ==
    {name \in SoftwareSections \ {"common", "environment"} : VersionLoads(name) # {}}

EnvironmentLoads(key) ==
    {i \in 1..Len(LoadedPipeline) :
        /\ "environment" \in DOMAIN FileSystem[LoadedPipeline[i]]
        /\ key \in DOMAIN FileSystem[LoadedPipeline[i]]["environment"]}

\* C19: the mapping applied by activate always holds PROD: the production
\* name when [environment] does not define PROD, the configured value when
\* it does.
ActivateAlwaysSetsProd ==
    activation.called =>
        /\ "PROD" \in DOMAIN prod_env.env_manager.env_variables
        /\ prod_env.env_manager.env_variables["PROD"] =
                IF EnvironmentLoads("PROD") = {} THEN prod_env.prod_name
                ELSE FileSystem[LoadedPipeline[Max(EnvironmentLoads("PROD"))]]
                               ["environment"]["PROD"]

\* the sources of paths that define key in section, by their place
DefinedBy(paths, section, key) ==
    {i \in 1..Len(paths) :
        /\ section \in DOMAIN FileSystem[paths[i]]
        /\ key \in DOMAIN FileSystem[paths[i]][section]}

\* the store that holds, for every section and key of the sources paths, the
\* value of the last source that defines it, under an empty override layer
LayeredStore(paths) ==
    LET sections == UNION {DOMAIN FileSystem[paths[i]] : i \in 1..Len(paths)}
        keys(s) == UNION {DOMAIN FileSystem[paths[i]][s] :
                            i \in {j \in 1..Len(paths) : s \in DOMAIN FileSystem[paths[j]]}}
    IN  [config_parser |->
            [s \in sections |->
                [k \in keys(s) |-> FileSystem[paths[Max(DefinedBy(paths, s, k))]][s][k]]],
         override_config |-> NewParser]

\* C22: construction skips every listed software or pipeline path that does
\* not exist and goes on with the rest: each store of the constructed
\* environment is the store of the existing listed paths alone, taken in
\* their listed order with later paths overriding earlier ones, and it is
\* an empty store when every listed path is missing.
MissingPathsAreSkipped ==
    /\ prod_env.software_config = LayeredStore(LoadedSoftware)
    /\ prod_env.pipeline_config = LayeredStore(LoadedPipeline)
    /\ (LoadedPipeline = <<>>) => prod_env.pipeline_config = ConfigManager_init

MissingPathsAreSkippedWitness ==
    /\ prod_env.config_paths.software = <<"absent.ini", "dev/software.ini">>
    /\ prod_env.config_paths.pipeline = <<"absent.ini", "absent.ini">>
    /\ prod_env.software_config.config_parser["maya"]["version"] = "2024.0"
    /\ prod_env.pipeline_config = ConfigManager_init

(***************************************************************************)
(* Claims about split_paths and _expand_paths, under PathSpec.             *)
(***************************************************************************)
\* a Windows drive-letter path: a letter, ':', a slash, and no other colon
IsDrivePath(p) ==
    /\ Len(p) >= 3
    /\ isalpha(p[1])
    /\ p[2] = ":"
    /\ p[3] \in {"\\", "/"}
    /\ \A i \in 3..Len(p) : p[i] # ":"

\* a non-empty Unix absolute path without a colon
IsUnixPath(p) ==
    /\ Len(p) >= 1
    /\ p[1] = "/"
    /\ \A i \in 1..Len(p) : p[i] # ":"

AllOf(paths, Is(_)) == paths # <<>> /\ \A i \in 1..Len(paths) : Is(paths[i])

\* C14: split_paths of Windows drive-letter paths joined with ':' returns
\* exactly those paths, in order, each with its drive-letter colon.
DrivePathsSplitIntact ==
    (/\ split_result.called
     /\ joined.sep = ":"
     /\ AllOf(joined.paths, IsDrivePath)) =>
        split_result.value = joined.paths

\* C15: split_paths of non-empty Unix absolute paths without a colon, joined
\* with ':', returns exactly those paths, in order.
UnixPathsSplitIntact ==
    (/\ split_result.called
     /\ joined.sep = ":"
     /\ AllOf(joined.paths, IsUnixPath)) =>
        split_result.value = joined.paths

\* C16: no element of a split_paths result is the empty string.
NoEmptyFragment ==
    split_result.called =>
        \A i \in 1..Len(split_result.value) : split_result.value[i] # <<>>

\* 'a::' gives ['a']: the consecutive and the trailing separator leave nothing
NoEmptyFragmentWitness ==
    /\ split_result.called
    /\ arg_path = <<"a", ":", ":">>
    /\ split_result.value = <<<<"a">>>>

\* C17: split_paths returns [] for the empty string, [s] for a non-empty s
\* without ':', a non-empty list for every non-empty input, and the input
\* itself as the sole element when splitting leaves no fragment.
SplitPathsTotal ==
    split_result.called =>
        /\ arg_path = <<>> => split_result.value = <<>>
        /\ (arg_path # <<>> /\ ~str_contains(arg_path, ":")) =>
                split_result.value = <<arg_path>>
        /\ arg_path # <<>> => split_result.value # <<>>
        /\ (arg_path # <<>> /\ \A i \in 1..Len(arg_path) : arg_path[i] = ":") =>
                split_result.value = <<arg_path>>

\* C18: a SOFTWARE_CONFIG or PIPELINE_CONFIG value that lists Windows
\* drive-letter paths separated by ':' or ';' becomes one config path per
\* listed path, in order, drive prefix intact, under either os.pathsep.
DrivePathsExpandIntact ==
    (/\ expand_result.called
     /\ AllOf(joined.paths, IsDrivePath)) =>
        expand_result.value =
            [i \in 1..Len(joined.paths) |-> format(joined.paths[i], path_self.prod_name)]

\* the places of str where a letter, a ':' and a slash follow one another
DriveTriples(str) ==
    {i \in 1..(Len(str) - 2) :
        /\ isalpha(str[i])
        /\ str[i + 1] = ":"
        /\ str[i + 2] \in {"\\", "/"}}

\* the colons of str that no such triple holds
FreeColons(str) ==
    {i \in 1..Len(str) : str[i] = ":" /\ (i - 1) \notin DriveTriples(str)}

RECURSIVE TriplesIn(_)
TriplesIn(fragments) ==
    IF fragments = <<>> THEN 0
    ELSE Cardinality(DriveTriples(Head(fragments))) + TriplesIn(Tail(fragments))

\* C24: split_paths never splits at a ':' that follows a letter and precedes
\* a slash, wherever the triple stands: every such triple of the input is
\* inside a fragment, and only the other colons separate fragments; so
\* 'C:\a:/u' comes back whole while '/u:C:\a' is split in two.
NeverSplitsAtDriveColon ==
    split_result.called =>
        /\ TriplesIn(split_result.value) >= Cardinality(DriveTriples(arg_path))
        /\ Len(split_result.value) <= 1 + Cardinality(FreeColons(arg_path))
        /\ arg_path = <<"C", ":", "\\", "a", ":", "/", "u">> =>
                split_result.value = <<arg_path>>
        /\ arg_path = <<"/", "u", ":", "C", ":", "\\", "a">> =>
                split_result.value = <<<<"/", "u">>, <<"C", ":", "\\", "a">>>>

NeverSplitsAtDriveColonWitness ==
    /\ split_result.called
    /\ arg_path = <<"C", ":", "\\", "a", ":", "/", "u">>
    /\ split_result.value = <<arg_path>>

\* str from place from on is the fragments in their order, each a run of
\* consecutive characters of str, with nothing but ':' before, between and
\* after them
RECURSIVE Embeds(_, _, _)
Embeds(fragments, str, from) ==
    IF fragments = <<>> THEN \A i \in from..Len(str) : str[i] = ":"
    ELSE \E start \in from..(Len(str) - Len(Head(fragments)) + 1) :
            /\ \A i \in from..(start - 1) : str[i] = ":"
            /\ SubSeq(str, start, start + Len(Head(fragments)) - 1) = Head(fragments)
            /\ Embeds(Tail(fragments), str, start + Len(Head(fragments)))

\* C29: each fragment split_paths returns is a contiguous substring of the
\* input, the fragments lie in the input in the order returned without
\* overlap, and the input characters outside them are separator colons.
FragmentsAreSubstrings ==
    split_result.called => Embeds(split_result.value, arg_path, 1)

\* the places of the separator in a string
SeparatorsIn(str, sep) == {i \in 1..Len(str) : str[i] = sep}

SettingsUnusable ==
    \/ settings_file = None
    \/ "environment" \notin DOMAIN settings_file[1]
    \/ \E key \in {"SOFTWARE_CONFIG", "PIPELINE_CONFIG"} :
            \/ key \notin DOMAIN settings_file[1]["environment"]
            \/ settings_file[1]["environment"][key] = <<>>

\* C21: construction over a settings file that is missing, has no
\* [environment] section, or has SOFTWARE_CONFIG or PIPELINE_CONFIG absent
\* or empty raises ConfigError, loads no software or pipeline source and
\* hands no instance to the caller.
UnusableSettingsFailConstruction ==
    (construction.called /\ SettingsUnusable) =>
        /\ construction.outcome.kind = "ConfigError"
        /\ construction.loads = <<>>
        /\ construction.instance = None

UnusableSettingsWitness ==
    /\ construction.called
    /\ settings_file # None
    /\ "environment" \in DOMAIN settings_file[1]
    /\ DOMAIN settings_file[1]["environment"] = {"SOFTWARE_CONFIG", "PIPELINE_CONFIG"}
    /\ settings_file[1]["environment"]["SOFTWARE_CONFIG"] = <<"studio/software.ini">>
    /\ settings_file[1]["environment"]["PIPELINE_CONFIG"] = <<>>
    /\ construction.outcome.kind = "ConfigError"

(***************************************************************************)
(* Claims about the package getters, under ParseSpec.                      *)
(***************************************************************************)
\* the raw value that the getter of parse_result read
RawRead ==
    IF parse_result.op = "get_common_packages" THEN parse_raw.common
    ELSE IF parse_result.software_name = "maya" THEN parse_raw.software
    ELSE "[]"

\* C20: for any raw packages value, get_required_packages, get_common_packages
\* and get_software_packages return the list of strings the value encodes,
\* or the empty list when the value is no well-formed list of strings; they
\* neither raise nor return a value that is no list.
PackagesAreListOrEmpty ==
    parse_result.op \in {"get_required_packages", "get_common_packages",
                         "get_software_packages"} =>
        parse_result.result =
            IF literal_eval(RawRead).kind = "return" /\ literal_eval(RawRead).type = "list"
            THEN PyReturn("list", literal_eval(RawRead).value)
            ELSE PyReturn("list", <<>>)

=============================================================================
